---- MODULE Spec2Model ----
(***************************************************************************)
(* The development-mode websocket relay of the devserver frontend           *)
(* (v2/internal/frontend/devserver/devserver.go) and the browser-side       *)
(* reconnecting IPC client, as state machines.                              *)
(*                                                                          *)
(* Byte strings are sequences of one-character strings, so that prefix,     *)
(* suffix, slicing and concatenation are computed as the code computes      *)
(* them.                                                                    *)
(***************************************************************************)
EXTENDS Integers, Sequences, FiniteSets, TLC

(* ------------------------------ bounds --------------------------------- *)
\* Every run is bounded by what its initial state allows: how many
\* connections the relay accepts (each *websocket.Conn is a fresh identity),
\* how many frames it receives, how many broadcasts are started, how many
\* browsers go away, and how many frame boundaries fall inside a message.

\* fan-out runs (Spec)
MaxConns == 3
MaxFrames == 2
MaxCalls == 1
MaxGone == 1

\* subscription runs (SubSpec)
SubConns == 2
SubFrames == 3
SubCalls == 1
SubGone == 1

\* reassembly runs (FrameSpec)
FrameConns == 1
FrameFrames == 4
FrameCuts == 3
FrameCalls == 1
FrameGone == 1

\* ordering runs (OrderSpec): two broadcasts one after the other
OrderConns == 2
OrderFrames == 1
OrderCalls == 2
OrderGone == 1

\* stalled-reassembly runs (StallSpec)
StallConns == 2
StallFrames == 2
StallCuts == 1
StallCalls == 1
StallGone == 1

\* locking runs (LockSpec)
LockConns == 2
LockFrames == 1
LockCalls == 1
LockGone == 1

\* reconnector runs (ClientSpec): WebSockets made, WailsInvoke calls
MaxSockets == 3
MaxInvokes == 3

Largest(a, b) == IF a >= b THEN a ELSE b
Conns == 1..Largest(Largest(MaxConns, Largest(OrderConns, LockConns)),
                   Largest(SubConns, Largest(FrameConns, StallConns)))

(* ------------------------------ bytes ---------------------------------- *)
Q == "\""

HasPrefix(s, p) == Len(s) >= Len(p) /\ SubSeq(s, 1, Len(p)) = p
HasSuffix(s, p) == Len(s) >= Len(p) /\ SubSeq(s, Len(s) - Len(p) + 1, Len(s)) = p
\* Go's s[k:] for a 0-based k
DropFirst(s, k) == SubSeq(s, k + 1, Len(s))

CallPrefix == <<"C", "{", Q>>
CallSuffix == <<Q, "}">>

foo == <<"f", "o", "o">>
bar == <<"b", "a", "r">>
Names == {foo, bar}
NoName == <<>>

Drag == <<"d", "r", "a", "g">>
Reload == <<"r", "e", "l", "o", "a", "d">>
ReloadApp == Reload \o <<"a", "p", "p">>
EE == <<"E", "E">>
EB == <<"E", "B">>
EX == <<"E", "X">>
\* C{"a":"b"}
CallMsg == <<"C", "{", Q, "a", Q, ":", Q, "b", Q, "}">>

NameOpen == <<"{", Q, "n", "a", "m", "e", Q, ":", Q>>
DataNull == <<Q, ",", Q, "d", "a", "t", "a", Q, ":", "n", "u", "l", "l", "}">>
DataEmpty == <<Q, ",", Q, "d", "a", "t", "a", Q, ":", "[", "]", "}">>

\* json.Marshal(EventNotify{Name: name, Data: nil}): a nil slice encodes as null
Marshal(name) == NameOpen \o name \o DataNull

\* mutant: every payload decodes
UnmarshalMut(payload) == [ok |-> TRUE, name |-> NoName]

\* json.Unmarshal into EventNotify, on the payload shapes the model's peers
\* send: {"name":"<letters>","data":[]} or ...,"data":null}; anything else
\* met here is not JSON ("{" alone, a truncated object) and is an error.
Unmarshal(payload) ==
    LET fits(suf) == /\ HasPrefix(payload, NameOpen)
                     /\ HasSuffix(payload, suf)
                     /\ Len(payload) >= Len(NameOpen) + Len(suf)
        mid(suf) == SubSeq(payload, Len(NameOpen) + 1, Len(payload) - Len(suf))
        good(suf) == fits(suf) /\ \A i \in 1..Len(mid(suf)) : mid(suf)[i] # Q
    IN IF good(DataNull) THEN [ok |-> TRUE, name |-> mid(DataNull)]
       ELSE IF good(DataEmpty) THEN [ok |-> TRUE, name |-> mid(DataEmpty)]
       ELSE [ok |-> FALSE, name |-> NoName]

\* the event message a browser emits for `name`, and a malformed one
EmitMsg(name) == EE \o NameOpen \o name \o DataEmpty
BadEmitMsg == EE \o <<"{">>

\* what the browsers of the model send
Msgs == {Drag, Reload, ReloadApp, CallMsg, BadEmitMsg}
          \cup {EmitMsg(n) : n \in {foo}}
          \cup {EB \o n : n \in Names}
          \cup {EX \o n : n \in {foo}}

\* a transport may cut any message into frames; the model cuts the call message
Splittable(m) == HasPrefix(m, CallPrefix)

\* the result the dispatcher answers a request with, when it answers
Result == <<"c">>

(* ------------------------- the relay's state --------------------------- *)
VARIABLES
    pc,               \* where each connection's handler goroutine stands
    websocketClients, \* keys of d.websocketClients
    eventCache,       \* WebsocketInfo.eventCache of each connection
    buffer,           \* the read loop's bytes.Buffer
    fullMsg,          \* the read loop's fullMsg
    closed,           \* c.Close() has run
    peerGone,         \* the browser end is gone: reads and writes fail
    peerRest,         \* bytes of the browser's current message not yet framed
    peerMsg,          \* the fragmented message the browser began at a message boundary
    heard,            \* the complete messages the loop made of peerMsg's frames
    framesLeft,       \* frames the relay may still receive
    cutsLeft,         \* frame boundaries that may still fall inside a message
    callsLeft,        \* broadcasts that may still be started
    goneLeft,         \* browsers that may still go away
    calls,            \* broadcast calls made so far, in order
    tasks,            \* delivery goroutines that have not run yet: <<call, client>>
    out,              \* per connection: the sends attempted on it, in order
    ndispatch,        \* calls of dispatcher.ProcessMessage so far
    hostNotified,     \* names d.Frontend.Notify was called with, in order
    frontendReloads,  \* calls of d.Frontend.WindowReload
    everSub,          \* names each connection ever subscribed to
    unsubAfter,       \* <<call, client>>: client processed EX of the call's name after the call
    subAfter          \* <<call, client>>: client processed EB of the call's name after the call

(* ----------------------- the reconnector's state ----------------------- *)
VARIABLES
    websocket,           \* the script's `websocket`: Null or a socket
    wailsInvokeInternal, \* the script's wailsInvokeInternal is set
    messageQueue,        \* the script's messageQueue
    connectTimer,        \* the script's connectTimer: the last setInterval handle
    timers,              \* interval timers that are running
    sock,                \* each WebSocket made so far: its state
    onclose,             \* sockets whose onclose is handleDisconnect
    wire,                \* what open sockets were given to send, in order
    ninvoke,             \* calls of window.WailsInvoke so far; the n-th passes n
    queued,              \* the messages WailsInvoke pushed on messageQueue, in order
    rebinds              \* calls of window.runtime.EventsRebind: the socket, and what the wire held

(* -------------------- the relay's lock and its threads ----------------- *)
\* read only by the locking runs, which take the steps of the handler, of
\* broadcast and of a delivery one lock operation and one blocking call at a time
VARIABLES
    socketMutex,         \* d.socketMutex: Free, or the thread that holds it
    inSend,              \* delivery goroutines inside websocket.Message.Send: <<call, client>>
    hostpc               \* the host's thread: idle, or inside broadcast with the lock

Null == 0
Sockets == 1..MaxSockets

\* threads that may hold the lock: a connection's handler goroutine, the host
Free == <<>>
Handler(c) == <<"handler", c>>
Host == <<"host">>

relayVars == <<pc, websocketClients, eventCache, buffer, fullMsg, closed, peerGone,
               peerRest, peerMsg, heard, framesLeft, cutsLeft, callsLeft, goneLeft, calls, tasks, out,
               ndispatch, hostNotified, frontendReloads, everSub, unsubAfter,
               subAfter>>
clientVars == <<websocket, wailsInvokeInternal, messageQueue, connectTimer, timers,
                sock, onclose, wire, ninvoke, queued, rebinds>>
lockVars == <<socketMutex, inSend, hostpc>>
vars == <<relayVars, clientVars, lockVars>>

(* -------------------- pieces of the relay's code ----------------------- *)
\* bytes.HasPrefix(msg, []byte(`C{"`))
Fragmented(msg) == HasPrefix(msg, CallPrefix)

\* bytes.HasSuffix(msg, []byte(`"}`)): msg is the frame read last
MessageComplete(buf, msg) == HasSuffix(msg, CallSuffix)

\* the branch the read loop takes on a complete message
Classify(m) ==
    IF Len(m) = 4 /\ m = Drag THEN "drag"
    ELSE IF Len(m) > 2 /\ SubSeq(m, 1, 2) = EE THEN "EE"
    ELSE IF Len(m) > 2 /\ SubSeq(m, 1, 2) = EB THEN "EB"
    ELSE IF Len(m) > 2 /\ SubSeq(m, 1, 2) = EX THEN "EX"
    ELSE "dispatch"

\* mutant: the unsubscribe forgets to delete
DeleteMut(cache, name) == cache

\* info.eventCache.Store(name, true) / info.eventCache.Delete(name)
Store(cache, name) == cache \cup {name}
Delete(cache, name) == cache \ {name}

\* mutant: drag falls through to the dispatcher
AfterSwitchMut(kind) == IF kind = "EB" THEN "recv" ELSE "dispatch"

\* mutant: the unsubscribe continues like the subscribe
AfterSwitchSkipsEX(kind) == IF kind \in {"drag", "EB", "EX"} THEN "recv" ELSE "dispatch"

\* the state the loop continues in after the switch
AfterSwitch(kind) == IF kind \in {"drag", "EB"} THEN "recv" ELSE "dispatch"

\* mutant: a new connection takes over the names earlier connections stored
WebsocketInfoMut(caches) == UNION {caches[k] : k \in Conns}

\* &WebsocketInfo{} (line 173): the eventCache of a connection being
\* registered is a zero sync.Map, whatever the caches of the others hold
WebsocketInfo(caches) == {}

\* mutant: the filter is skipped
PassesFilterMut(name, cache) == TRUE

\* broadcast's goroutine: name != "" and cache.Load(name) fails -> return
PassesFilter(name, cache) == name = NoName \/ name \in cache

\* mutant: the sender is not recognised
SkipsSenderMut(client, sender) == FALSE

\* broadcastExcludingSender's goroutine: client == sender -> return
SkipsSender(client, sender) == client = sender

\* mutant: the EE prefix is kept
NotifyMessageMut(eventMessage) == eventMessage

\* message := "n" + string(eventMessage[2:])
NotifyMessage(eventMessage) == <<"n">> \o DropFirst(eventMessage, 2)

\* websocket.Message.Send succeeds on a connection that is open at both ends
SendOk(c) == ~closed[c] /\ ~peerGone[c]

\* mutant: goroutines are started for every accepted connection
StartCallMut(kind, message, name, sender) ==
    /\ calls' = Append(calls, [kind |-> kind, message |-> message, name |-> name,
                               sender |-> sender, snapshot |-> websocketClients,
                               subsAt |-> eventCache, closedAt |-> closed])
    /\ tasks' = tasks \cup {<<Len(calls) + 1, k>> : k \in {x \in Conns : pc[x] # "off"}}

\* the loop over d.websocketClients under socketMutex: one goroutine per client
StartCall(kind, message, name, sender) ==
    /\ calls' = Append(calls, [kind |-> kind, message |-> message, name |-> name,
                               sender |-> sender, snapshot |-> websocketClients,
                               subsAt |-> eventCache, closedAt |-> closed])
    /\ tasks' = tasks \cup {<<Len(calls) + 1, k>> : k \in websocketClients}

\* the state after NewFrontend, with what the run's bounds allow
InitRelay(conns, frames, cuts, ncalls, gone) ==
    /\ pc = [c \in Conns |-> IF c <= conns THEN "new" ELSE "off"]
    /\ websocketClients = {}
    /\ eventCache = [c \in Conns |-> {}]
    /\ buffer = [c \in Conns |-> <<>>]
    /\ fullMsg = [c \in Conns |-> <<>>]
    /\ closed = [c \in Conns |-> FALSE]
    /\ peerGone = [c \in Conns |-> FALSE]
    /\ peerRest = [c \in Conns |-> <<>>]
    /\ peerMsg = [c \in Conns |-> <<>>]
    /\ heard = [c \in Conns |-> <<>>]
    /\ framesLeft = frames
    /\ cutsLeft = cuts
    /\ callsLeft = ncalls
    /\ goneLeft = gone
    /\ calls = <<>>
    /\ tasks = {}
    /\ out = [c \in Conns |-> <<>>]
    /\ ndispatch = 0
    /\ hostNotified = <<>>
    /\ frontendReloads = 0
    /\ everSub = [c \in Conns |-> {}]
    /\ unsubAfter = {}
    /\ subAfter = {}

\* nobody holds the lock, no send is in progress
InitLock ==
    /\ socketMutex = Free
    /\ inSend = {}
    /\ hostpc = "idle"

\* the relay runs leave the browser script as it is before it loads
InitClient ==
    /\ websocket = Null
    /\ wailsInvokeInternal = FALSE
    /\ messageQueue = <<>>
    /\ connectTimer = Null
    /\ timers = {}
    /\ sock = [s \in Sockets |-> "none"]
    /\ onclose = {}
    /\ wire = <<>>
    /\ ninvoke = 0
    /\ queued = <<>>
    /\ rebinds = <<>>

(* --------------------------- relay actions ----------------------------- *)
\* the upgrade handshake succeeded: websocket.Handler calls the function
Accept(c) ==
    /\ pc[c] = "new"
    /\ \A k \in Conns : k < c => pc[k] # "new"
    /\ pc' = [pc EXCEPT ![c] = "accepted"]
    /\ UNCHANGED <<websocketClients, eventCache, buffer, fullMsg, closed, peerGone,
                   peerRest, peerMsg, heard, framesLeft, cutsLeft, callsLeft,
                   goneLeft, calls, tasks, out, hostNotified, frontendReloads,
                   everSub, unsubAfter, subAfter, ndispatch, clientVars, lockVars>>

\* mutant: the handler forgets to register the connection
RegisterMut(c) ==
    /\ pc[c] = "accepted"
    /\ pc' = [pc EXCEPT ![c] = "recv"]
    /\ UNCHANGED <<websocketClients, eventCache, buffer, fullMsg, closed, peerGone,
                   peerRest, peerMsg, heard, framesLeft, cutsLeft, callsLeft,
                   goneLeft, calls, tasks, out, hostNotified, frontendReloads,
                   everSub, unsubAfter, subAfter, ndispatch, clientVars, lockVars>>

\* lines 172-175: d.websocketClients[c] = &WebsocketInfo{} under socketMutex
Register(c) ==
    /\ pc[c] = "accepted"
    /\ websocketClients' = websocketClients \cup {c}
    /\ eventCache' = [eventCache EXCEPT ![c] = WebsocketInfo(eventCache)]
    /\ pc' = [pc EXCEPT ![c] = "recv"]
    /\ UNCHANGED <<buffer, fullMsg, closed, peerGone, peerRest, peerMsg, heard,
                   framesLeft, cutsLeft, callsLeft, goneLeft, calls, tasks, out,
                   hostNotified, frontendReloads, everSub, unsubAfter, subAfter,
                   ndispatch, clientVars, lockVars>>

\* the browser end goes away (tab closed, network lost) while the read loop
\* is busy with a message; while the loop is blocked in Receive this is ReadFail
PeerClose(c) ==
    /\ pc[c] = "dispatch"
    /\ ~peerGone[c]
    /\ goneLeft > 0
    /\ goneLeft' = goneLeft - 1
    /\ peerGone' = [peerGone EXCEPT ![c] = TRUE]
    /\ UNCHANGED <<pc, websocketClients, eventCache, buffer, fullMsg, closed,
                   peerRest, peerMsg, heard, framesLeft, cutsLeft, callsLeft,
                   calls, tasks, out, hostNotified, frontendReloads, everSub,
                   unsubAfter, subAfter, ndispatch, clientVars, lockVars>>

\* one websocket.Message.Receive of the read loop that succeeds, and all the
\* loop does with the frame before it blocks again (lines 186-226)
\* the frame is the first k bytes of m: a message the browser begins, or
\* what is left of the one it is sending
ReceiveMsg(c, m, k) ==
    /\ pc[c] \in {"recv", "frag"}
    /\ ~peerGone[c]
    /\ framesLeft > 0
    /\ framesLeft' = framesLeft - 1
    /\ m \in (IF peerRest[c] = <<>> THEN Msgs ELSE {peerRest[c]})
    /\ k \in (IF cutsLeft > 0 /\ (peerRest[c] # <<>> \/ Splittable(m))
              THEN 1..Len(m) ELSE {Len(m)})
    /\    LET newMsg == peerRest[c] = <<>>
              first == pc[c] = "recv"
              frame == SubSeq(m, 1, k)
              buf == IF first THEN frame ELSE buffer[c] \o frame
              done == IF first
                      THEN ~Fragmented(frame) \/ MessageComplete(buf, frame)
                      ELSE MessageComplete(buf, frame)
              kind == Classify(buf)
              name == DropFirst(buf, 2)
              sameName == {i \in 1..Len(calls) : calls[i].name = name}
              tracked == IF newMsg THEN first /\ Splittable(m) ELSE peerMsg[c] # <<>>
          IN /\ cutsLeft' = IF k < Len(m) THEN cutsLeft - 1 ELSE cutsLeft
             /\ peerRest' = [peerRest EXCEPT ![c] = DropFirst(m, k)]
             /\ peerMsg' = [peerMsg EXCEPT ![c] =
                               IF newMsg THEN (IF tracked THEN m ELSE <<>>) ELSE @]
             /\ heard' = [heard EXCEPT ![c] =
                             IF ~tracked THEN <<>>
                             ELSE (IF newMsg THEN <<>> ELSE @)
                                     \o (IF done THEN <<buf>> ELSE <<>>)]
             /\ IF ~done
                THEN /\ buffer' = [buffer EXCEPT ![c] = buf]
                     /\ fullMsg' = [fullMsg EXCEPT ![c] = <<>>]
                     /\ pc' = [pc EXCEPT ![c] = "frag"]
                     /\ UNCHANGED <<eventCache, everSub, subAfter, unsubAfter, calls,
                                    tasks, callsLeft, hostNotified>>
                ELSE /\ buffer' = [buffer EXCEPT ![c] = <<>>]
                     /\ pc' = [pc EXCEPT ![c] = AfterSwitch(kind)]
                     /\ fullMsg' = [fullMsg EXCEPT ![c] =
                                       IF AfterSwitch(kind) = "recv" THEN <<>> ELSE buf]
                     /\ IF kind = "EE"
                        THEN /\ callsLeft > 0
                             /\ callsLeft' = callsLeft - 1
                             /\ StartCall("excl", NotifyMessage(buf), NoName, c)
                             /\ hostNotified' =
                                   IF Unmarshal(DropFirst(buf, 2)).ok
                                   THEN Append(hostNotified, Unmarshal(DropFirst(buf, 2)).name)
                                   ELSE hostNotified
                        ELSE UNCHANGED <<calls, tasks, callsLeft, hostNotified>>
                     /\ eventCache' = [eventCache EXCEPT ![c] =
                                          IF kind = "EB" THEN Store(@, name)
                                          ELSE IF kind = "EX" THEN Delete(@, name)
                                          ELSE @]
                     /\ everSub' = [everSub EXCEPT ![c] =
                                       IF kind = "EB" THEN @ \cup {name} ELSE @]
                     /\ subAfter' = IF kind = "EB"
                                    THEN subAfter \cup {<<i, c>> : i \in sameName}
                                    ELSE subAfter
                     /\ unsubAfter' = IF kind = "EX"
                                      THEN unsubAfter \cup {<<i, c>> : i \in sameName}
                                      ELSE unsubAfter
    /\ UNCHANGED <<websocketClients, closed, peerGone, goneLeft, out,
                   frontendReloads, ndispatch, clientVars, lockVars>>

Receive(c) ==
    \E m \in (IF peerRest[c] = <<>> THEN Msgs ELSE {peerRest[c]}) :
       \E k \in (IF cutsLeft > 0 THEN 1..Len(m) ELSE {Len(m)}) : ReceiveMsg(c, m, k)

\* mutant: a read that fails inside a reassembly hands the partial buffer on
ReadFailMut(c) ==
    /\ pc[c] \in {"recv", "frag"}
    /\ peerGone[c] \/ goneLeft > 0
    /\ goneLeft' = IF peerGone[c] THEN goneLeft ELSE goneLeft - 1
    /\ peerGone' = [peerGone EXCEPT ![c] = TRUE]
    /\ pc' = [pc EXCEPT ![c] = IF pc[c] = "frag" THEN "dispatch" ELSE "closing"]
    /\ fullMsg' = [fullMsg EXCEPT ![c] = IF pc[c] = "frag" THEN buffer[c] ELSE @]
    /\ closed' = [closed EXCEPT ![c] = pc[c] # "frag"]
    /\ UNCHANGED <<websocketClients, eventCache, buffer, peerRest, peerMsg,
                   heard, framesLeft, cutsLeft, callsLeft, calls, tasks, out,
                   hostNotified, frontendReloads, everSub, unsubAfter, subAfter,
                   ndispatch, clientVars, lockVars>>

\* a Receive that fails because the browser end is gone (line 189 break,
\* line 201 return), then the deferred c.Close()
ReadFail(c) ==
    /\ pc[c] \in {"recv", "frag"}
    /\ peerGone[c] \/ goneLeft > 0
    /\ goneLeft' = IF peerGone[c] THEN goneLeft ELSE goneLeft - 1
    /\ peerGone' = [peerGone EXCEPT ![c] = TRUE]
    /\ pc' = [pc EXCEPT ![c] = "closing"]
    /\ closed' = [closed EXCEPT ![c] = TRUE]
    /\ UNCHANGED <<websocketClients, eventCache, buffer, fullMsg, peerRest, peerMsg,
                   heard, framesLeft, cutsLeft, callsLeft, calls, tasks, out,
                   hostNotified, frontendReloads, everSub, unsubAfter, subAfter,
                   ndispatch, clientVars, lockVars>>

\* lines 177-182: the deferred delete(d.websocketClients, c) under socketMutex
Unregister(c) ==
    /\ pc[c] = "closing"
    /\ websocketClients' = websocketClients \ {c}
    /\ pc' = [pc EXCEPT ![c] = "done"]
    /\ UNCHANGED <<eventCache, buffer, fullMsg, closed, peerGone, peerRest, peerMsg,
                   heard, framesLeft, cutsLeft, callsLeft, goneLeft, calls, tasks,
                   out, hostNotified, frontendReloads, everSub, unsubAfter,
                   subAfter, ndispatch, clientVars, lockVars>>

\* what dispatcher.ProcessMessage may return: an error, nothing, or a result
ProcessMessage(m) ==
    {[result |-> <<>>, err |-> TRUE],
     [result |-> <<>>, err |-> FALSE],
     [result |-> Result, err |-> FALSE]}

\* mutant: a dispatcher error ends the loop
DispatchWithMut(c, r) ==
    /\ pc[c] = "dispatch"
    /\ r \in ProcessMessage(fullMsg[c])
    /\ IF r.result # <<>>
       THEN /\ out' = [out EXCEPT ![c] =
                          Append(@, [call |-> 0, msg |-> r.result, ok |-> SendOk(c)])]
            /\ pc' = [pc EXCEPT ![c] = IF SendOk(c) THEN "recv" ELSE "closing"]
            /\ closed' = [closed EXCEPT ![c] = ~SendOk(c)]
       ELSE /\ pc' = [pc EXCEPT ![c] = IF r.err THEN "closing" ELSE "recv"]
            /\ closed' = [closed EXCEPT ![c] = r.err]
            /\ UNCHANGED out
    /\ fullMsg' = [fullMsg EXCEPT ![c] = <<>>]
    /\ ndispatch' = ndispatch + 1
    /\ UNCHANGED <<websocketClients, eventCache, buffer, peerGone, peerRest, peerMsg,
                   heard, framesLeft, cutsLeft, callsLeft, goneLeft, calls, tasks,
                   hostNotified, frontendReloads, everSub, unsubAfter, subAfter,
                   clientVars, lockVars>>

\* lines 229-240: the dispatcher call returns r; the error is logged, a
\* non-empty result is written to c, and a failed write breaks the loop
\* (then the deferred c.Close())
DispatchWith(c, r) ==
    /\ pc[c] = "dispatch"
    /\ r \in ProcessMessage(fullMsg[c])
    /\ IF r.result # <<>>
       THEN /\ out' = [out EXCEPT ![c] =
                          Append(@, [call |-> 0, msg |-> r.result, ok |-> SendOk(c)])]
            /\ pc' = [pc EXCEPT ![c] = IF SendOk(c) THEN "recv" ELSE "closing"]
            /\ closed' = [closed EXCEPT ![c] = ~SendOk(c)]
       ELSE /\ pc' = [pc EXCEPT ![c] = "recv"]
            /\ UNCHANGED <<out, closed>>
    /\ fullMsg' = [fullMsg EXCEPT ![c] = <<>>]
    /\ ndispatch' = ndispatch + 1
    /\ UNCHANGED <<websocketClients, eventCache, buffer, peerGone, peerRest, peerMsg,
                   heard, framesLeft, cutsLeft, callsLeft, goneLeft, calls, tasks,
                   hostNotified, frontendReloads, everSub, unsubAfter, subAfter,
                   clientVars, lockVars>>

Dispatch(c) == \E r \in ProcessMessage(fullMsg[c]) : DispatchWith(c, r)

\* mutant: no delivery runs while some read loop is inside a reassembly
DeliverWaits(i, c) ==
    /\ <<i, c>> \in tasks
    /\ \A k \in Conns : pc[k] # "frag"
    /\ tasks' = tasks \ {<<i, c>>}
    /\ LET call == calls[i]
           sends == IF call.kind = "excl"
                    THEN ~SkipsSender(c, call.sender)
                    ELSE PassesFilter(call.name, eventCache[c])
       IN out' = IF sends
                 THEN [out EXCEPT ![c] =
                         Append(@, [call |-> i, msg |-> call.message, ok |-> SendOk(c)])]
                 ELSE out
    /\ UNCHANGED <<pc, websocketClients, eventCache, buffer, fullMsg, closed,
                   peerGone, peerRest, peerMsg, heard, framesLeft, cutsLeft,
                   callsLeft, goneLeft, calls, hostNotified, frontendReloads,
                   everSub, unsubAfter, subAfter, ndispatch, clientVars, lockVars>>

\* mutant: a delivery whose send fails removes the connection
DeliverMut(i, c) ==
    /\ <<i, c>> \in tasks
    /\ tasks' = tasks \ {<<i, c>>}
    /\ LET call == calls[i]
           sends == IF call.kind = "excl"
                    THEN ~SkipsSender(c, call.sender)
                    ELSE PassesFilter(call.name, eventCache[c])
       IN /\ out' = IF sends
                    THEN [out EXCEPT ![c] =
                            Append(@, [call |-> i, msg |-> call.message, ok |-> SendOk(c)])]
                    ELSE out
          /\ websocketClients' = IF sends /\ ~SendOk(c)
                                 THEN websocketClients \ {c} ELSE websocketClients
    /\ UNCHANGED <<pc, eventCache, buffer, fullMsg, closed,
                   peerGone, peerRest, peerMsg, heard, framesLeft, cutsLeft,
                   callsLeft, goneLeft, calls, hostNotified, frontendReloads,
                   everSub, unsubAfter, subAfter, ndispatch, clientVars, lockVars>>

\* mutant: the goroutine filters on the caches as they were at the call
DeliverAtCall(i, c) ==
    /\ <<i, c>> \in tasks
    /\ tasks' = tasks \ {<<i, c>>}
    /\ LET call == calls[i]
           sends == IF call.kind = "excl"
                    THEN ~SkipsSender(c, call.sender)
                    ELSE PassesFilter(call.name, call.subsAt[c])
       IN out' = IF sends
                 THEN [out EXCEPT ![c] =
                         Append(@, [call |-> i, msg |-> call.message, ok |-> SendOk(c)])]
                 ELSE out
    /\ UNCHANGED <<pc, websocketClients, eventCache, buffer, fullMsg, closed,
                   peerGone, peerRest, peerMsg, heard, framesLeft, cutsLeft,
                   callsLeft, goneLeft, calls, hostNotified, frontendReloads,
                   everSub, unsubAfter, subAfter, ndispatch, clientVars, lockVars>>

\* one delivery goroutine of broadcast (lines 259-277) or of
\* broadcastExcludingSender (lines 299-310) runs
Deliver(i, c) ==
    /\ <<i, c>> \in tasks
    /\ tasks' = tasks \ {<<i, c>>}
    /\ LET call == calls[i]
           sends == IF call.kind = "excl"
                    THEN ~SkipsSender(c, call.sender)
                    ELSE PassesFilter(call.name, eventCache[c])
       IN out' = IF sends
                 THEN [out EXCEPT ![c] =
                         Append(@, [call |-> i, msg |-> call.message, ok |-> SendOk(c)])]
                 ELSE out
    /\ UNCHANGED <<pc, websocketClients, eventCache, buffer, fullMsg, closed,
                   peerGone, peerRest, peerMsg, heard, framesLeft, cutsLeft,
                   callsLeft, goneLeft, calls, hostNotified, frontendReloads,
                   everSub, unsubAfter, subAfter, ndispatch, clientVars, lockVars>>

\* DevWebServer.Notify -> notify(name): broadcast("n"+payload, name)
Notify(name) ==
    /\ callsLeft > 0
    /\ callsLeft' = callsLeft - 1
    /\ StartCall("all", <<"n">> \o Marshal(name), name, Null)
    /\ UNCHANGED <<pc, websocketClients, eventCache, buffer, fullMsg, closed,
                   peerGone, peerRest, peerMsg, heard, framesLeft, cutsLeft,
                   goneLeft, out, hostNotified, frontendReloads, everSub,
                   unsubAfter, subAfter, ndispatch, clientVars, lockVars>>

\* mutant: the reload broadcast is filtered like an event
WindowReloadMut ==
    /\ callsLeft > 0
    /\ callsLeft' = callsLeft - 1
    /\ StartCall("all", Reload, foo, Null)
    /\ frontendReloads' = frontendReloads + 1
    /\ UNCHANGED <<pc, websocketClients, eventCache, buffer, fullMsg, closed,
                   peerGone, peerRest, peerMsg, heard, framesLeft, cutsLeft,
                   goneLeft, out, hostNotified, everSub, unsubAfter, subAfter,
                   ndispatch, clientVars, lockVars>>

\* DevWebServer.WindowReload (also what GET /wails/reload runs)
WindowReload ==
    /\ callsLeft > 0
    /\ callsLeft' = callsLeft - 1
    /\ StartCall("all", Reload, NoName, Null)
    /\ frontendReloads' = frontendReloads + 1
    /\ UNCHANGED <<pc, websocketClients, eventCache, buffer, fullMsg, closed,
                   peerGone, peerRest, peerMsg, heard, framesLeft, cutsLeft,
                   goneLeft, out, hostNotified, everSub, unsubAfter, subAfter,
                   ndispatch, clientVars, lockVars>>

Next ==
    \/ \E c \in Conns : Accept(c)
    \/ \E c \in Conns : Register(c)
    \/ \E c \in Conns : PeerClose(c)
    \/ \E c \in Conns : Receive(c)
    \/ \E c \in Conns : ReadFail(c)
    \/ \E c \in Conns : Unregister(c)
    \/ \E c \in Conns : Dispatch(c)
    \/ \E t \in tasks : Deliver(t[1], t[2])
    \/ \E n \in Names : Notify(n)
    \/ WindowReload

\* fan-out runs: three browsers, no frame boundary inside a message
Init == InitRelay(MaxConns, MaxFrames, 0, MaxCalls, MaxGone) /\ InitClient /\ InitLock
Spec == Init /\ [][Next]_vars

\* subscription runs: two browsers, longer conversations
SubInit == InitRelay(SubConns, SubFrames, 0, SubCalls, SubGone) /\ InitClient /\ InitLock
SubSpec == SubInit /\ [][Next]_vars

\* reassembly runs: one browser whose messages arrive cut into frames
FrameInit == InitRelay(FrameConns, FrameFrames, FrameCuts, FrameCalls, FrameGone)
                /\ InitClient /\ InitLock
FrameSpec == FrameInit /\ [][Next]_vars

\* ordering runs: the host broadcasts twice
OrderInit == InitRelay(OrderConns, OrderFrames, 0, OrderCalls, OrderGone) /\ InitClient /\ InitLock
OrderSpec == OrderInit /\ [][Next]_vars

\* stalled-reassembly runs: every goroutine that can take a step takes it;
\* nothing makes a browser send or the host broadcast
StallFairness ==
    \A c \in Conns :
       /\ WF_vars(Register(c))
       /\ WF_vars(Dispatch(c))
       /\ WF_vars(Unregister(c))
       /\ WF_vars(\E i \in 1..StallCalls : Deliver(i, c))

StallInit == InitRelay(StallConns, StallFrames, StallCuts, StallCalls, StallGone)
                /\ InitClient /\ InitLock
StallSpec == StallInit /\ [][Next]_vars /\ StallFairness

(* ------------------ the relay, one lock operation at a time ------------- *)
\* mutant: the handler keeps the lock after registering
RegisterStoreMut(c) ==
    /\ pc[c] = "registering"
    /\ websocketClients' = websocketClients \cup {c}
    /\ eventCache' = [eventCache EXCEPT ![c] = WebsocketInfo(eventCache)]
    /\ pc' = [pc EXCEPT ![c] = "recv"]
    /\ UNCHANGED <<buffer, fullMsg, closed, peerGone, peerRest, peerMsg, heard,
                   framesLeft, cutsLeft, callsLeft, goneLeft, calls, tasks, out,
                   ndispatch, hostNotified, frontendReloads, everSub, unsubAfter,
                   subAfter, socketMutex, inSend, hostpc, clientVars>>

\* line 172: d.socketMutex.Lock() of the handler
RegisterLock(c) ==
    /\ pc[c] = "accepted"
    /\ socketMutex = Free
    /\ socketMutex' = Handler(c)
    /\ pc' = [pc EXCEPT ![c] = "registering"]
    /\ UNCHANGED <<websocketClients, eventCache, buffer, fullMsg, closed, peerGone,
                   peerRest, peerMsg, heard, framesLeft, cutsLeft, callsLeft,
                   goneLeft, calls, tasks, out, ndispatch, hostNotified,
                   frontendReloads, everSub, unsubAfter, subAfter, inSend, hostpc,
                   clientVars>>

\* lines 173-175: the map write, then Unlock()
RegisterStore(c) ==
    /\ pc[c] = "registering"
    /\ websocketClients' = websocketClients \cup {c}
    /\ eventCache' = [eventCache EXCEPT ![c] = WebsocketInfo(eventCache)]
    /\ socketMutex' = Free
    /\ pc' = [pc EXCEPT ![c] = "recv"]
    /\ UNCHANGED <<buffer, fullMsg, closed, peerGone, peerRest, peerMsg, heard,
                   framesLeft, cutsLeft, callsLeft, goneLeft, calls, tasks, out,
                   ndispatch, hostNotified, frontendReloads, everSub, unsubAfter,
                   subAfter, inSend, hostpc, clientVars>>

\* a message that takes no lock: the coarse step is the fine one
PlainReceive(c) ==
    \E m \in {x \in Msgs : Classify(x) # "EE"} : ReceiveMsg(c, m, Len(m))

\* lines 188-216: an EE message is read; notifyExcludingSender is about to
\* call broadcastExcludingSender
EmitReceive(c) ==
    /\ pc[c] = "recv"
    /\ ~peerGone[c]
    /\ peerRest[c] = <<>>
    /\ framesLeft > 0
    /\ framesLeft' = framesLeft - 1
    /\ \E m \in {x \in Msgs : Classify(x) = "EE"} :
          fullMsg' = [fullMsg EXCEPT ![c] = m]
    /\ peerMsg' = [peerMsg EXCEPT ![c] = <<>>]
    /\ heard' = [heard EXCEPT ![c] = <<>>]
    /\ pc' = [pc EXCEPT ![c] = "emit"]
    /\ UNCHANGED <<websocketClients, eventCache, buffer, closed, peerGone,
                   peerRest, cutsLeft, callsLeft, goneLeft, calls, tasks, out,
                   ndispatch, hostNotified, frontendReloads, everSub, unsubAfter,
                   subAfter, socketMutex, inSend, hostpc, clientVars>>

\* line 296: Lock() in broadcastExcludingSender, on the handler's thread
EmitLock(c) ==
    /\ pc[c] = "emit"
    /\ callsLeft > 0
    /\ socketMutex = Free
    /\ socketMutex' = Handler(c)
    /\ pc' = [pc EXCEPT ![c] = "emitting"]
    /\ UNCHANGED <<websocketClients, eventCache, buffer, fullMsg, closed, peerGone,
                   peerRest, peerMsg, heard, framesLeft, cutsLeft, callsLeft,
                   goneLeft, calls, tasks, out, ndispatch, hostNotified,
                   frontendReloads, everSub, unsubAfter, subAfter, inSend, hostpc,
                   clientVars>>

\* lines 297-311: the loop starts the goroutines, the deferred Unlock() runs;
\* lines 318-324: the host's Notify; then the handler goes on to line 229
EmitSpawn(c) ==
    /\ pc[c] = "emitting"
    /\ callsLeft' = callsLeft - 1
    /\ StartCall("excl", NotifyMessage(fullMsg[c]), NoName, c)
    /\ hostNotified' = IF Unmarshal(DropFirst(fullMsg[c], 2)).ok
                       THEN Append(hostNotified, Unmarshal(DropFirst(fullMsg[c], 2)).name)
                       ELSE hostNotified
    /\ socketMutex' = Free
    /\ pc' = [pc EXCEPT ![c] = "dispatch"]
    /\ UNCHANGED <<websocketClients, eventCache, buffer, fullMsg, closed, peerGone,
                   peerRest, peerMsg, heard, framesLeft, cutsLeft, goneLeft, out,
                   ndispatch, frontendReloads, everSub, unsubAfter, subAfter,
                   inSend, hostpc, clientVars>>

\* line 229: the handler calls d.dispatcher.ProcessMessage(string(fullMsg), d)
ProcessBegin(c) ==
    /\ pc[c] = "dispatch"
    /\ ndispatch' = ndispatch + 1
    /\ pc' = [pc EXCEPT ![c] = "processing"]
    /\ UNCHANGED <<websocketClients, eventCache, buffer, fullMsg, closed, peerGone,
                   peerRest, peerMsg, heard, framesLeft, cutsLeft, callsLeft,
                   goneLeft, calls, tasks, out, hostNotified, frontendReloads,
                   everSub, unsubAfter, subAfter, socketMutex, inSend, hostpc,
                   clientVars>>

\* the dispatcher, on the handler's thread, calls back d.WindowReload():
\* line 256, Lock() in broadcast
ReenterLock(c) ==
    /\ pc[c] = "processing"
    /\ callsLeft > 0
    /\ socketMutex = Free
    /\ socketMutex' = Handler(c)
    /\ pc' = [pc EXCEPT ![c] = "reentering"]
    /\ UNCHANGED <<websocketClients, eventCache, buffer, fullMsg, closed, peerGone,
                   peerRest, peerMsg, heard, framesLeft, cutsLeft, callsLeft,
                   goneLeft, calls, tasks, out, ndispatch, hostNotified,
                   frontendReloads, everSub, unsubAfter, subAfter, inSend, hostpc,
                   clientVars>>

\* lines 257-279 and 147: the goroutines are started, Unlock(), then
\* d.Frontend.WindowReload(); the dispatcher call goes on
ReenterSpawn(c) ==
    /\ pc[c] = "reentering"
    /\ callsLeft' = callsLeft - 1
    /\ StartCall("all", Reload, NoName, Null)
    /\ frontendReloads' = frontendReloads + 1
    /\ socketMutex' = Free
    /\ pc' = [pc EXCEPT ![c] = "processing"]
    /\ UNCHANGED <<websocketClients, eventCache, buffer, fullMsg, closed, peerGone,
                   peerRest, peerMsg, heard, framesLeft, cutsLeft, goneLeft, out,
                   ndispatch, hostNotified, everSub, unsubAfter, subAfter, inSend,
                   hostpc, clientVars>>

\* lines 229-234: ProcessMessage returns; with a result the handler enters
\* websocket.Message.Send(c, result)
ProcessEnd(c) ==
    /\ pc[c] = "processing"
    /\ \E r \in ProcessMessage(fullMsg[c]) :
          pc' = [pc EXCEPT ![c] = IF r.result # <<>> THEN "writing" ELSE "recv"]
    /\ fullMsg' = [fullMsg EXCEPT ![c] = <<>>]
    /\ UNCHANGED <<websocketClients, eventCache, buffer, closed, peerGone,
                   peerRest, peerMsg, heard, framesLeft, cutsLeft, callsLeft,
                   goneLeft, calls, tasks, out, ndispatch, hostNotified,
                   frontendReloads, everSub, unsubAfter, subAfter, socketMutex,
                   inSend, hostpc, clientVars>>

\* lines 234-236: the Send of the result returns
WriteEnd(c) ==
    /\ pc[c] = "writing"
    /\ out' = [out EXCEPT ![c] = Append(@, [call |-> 0, msg |-> Result, ok |-> SendOk(c)])]
    /\ pc' = [pc EXCEPT ![c] = IF SendOk(c) THEN "recv" ELSE "closing"]
    /\ closed' = [closed EXCEPT ![c] = ~SendOk(c)]
    /\ UNCHANGED <<websocketClients, eventCache, buffer, fullMsg, peerGone,
                   peerRest, peerMsg, heard, framesLeft, cutsLeft, callsLeft,
                   goneLeft, calls, tasks, ndispatch, hostNotified,
                   frontendReloads, everSub, unsubAfter, subAfter, socketMutex,
                   inSend, hostpc, clientVars>>

\* line 178: Lock() of the deferred delete
UnregisterLock(c) ==
    /\ pc[c] = "closing"
    /\ socketMutex = Free
    /\ socketMutex' = Handler(c)
    /\ pc' = [pc EXCEPT ![c] = "deleting"]
    /\ UNCHANGED <<websocketClients, eventCache, buffer, fullMsg, closed, peerGone,
                   peerRest, peerMsg, heard, framesLeft, cutsLeft, callsLeft,
                   goneLeft, calls, tasks, out, ndispatch, hostNotified,
                   frontendReloads, everSub, unsubAfter, subAfter, inSend, hostpc,
                   clientVars>>

\* lines 179-180: delete(d.websocketClients, c), then Unlock()
UnregisterDelete(c) ==
    /\ pc[c] = "deleting"
    /\ websocketClients' = websocketClients \ {c}
    /\ socketMutex' = Free
    /\ pc' = [pc EXCEPT ![c] = "done"]
    /\ UNCHANGED <<eventCache, buffer, fullMsg, closed, peerGone, peerRest,
                   peerMsg, heard, framesLeft, cutsLeft, callsLeft, goneLeft,
                   calls, tasks, out, ndispatch, hostNotified, frontendReloads,
                   everSub, unsubAfter, subAfter, inSend, hostpc, clientVars>>

\* the host calls WindowReload or Notify: line 256, Lock() in broadcast
HostLock ==
    /\ hostpc = "idle"
    /\ callsLeft > 0
    /\ socketMutex = Free
    /\ socketMutex' = Host
    /\ hostpc' \in {"reload", "notify"}
    /\ UNCHANGED <<pc, websocketClients, eventCache, buffer, fullMsg, closed,
                   peerGone, peerRest, peerMsg, heard, framesLeft, cutsLeft,
                   callsLeft, goneLeft, calls, tasks, out, ndispatch, hostNotified,
                   frontendReloads, everSub, unsubAfter, subAfter, inSend,
                   clientVars>>

\* lines 257-279: the goroutines are started and the deferred Unlock() runs
HostSpawn ==
    /\ hostpc # "idle"
    /\ callsLeft' = callsLeft - 1
    /\ IF hostpc = "reload"
       THEN /\ StartCall("all", Reload, NoName, Null)
            /\ frontendReloads' = frontendReloads + 1
       ELSE /\ StartCall("all", <<"n">> \o Marshal(foo), foo, Null)
            /\ frontendReloads' = frontendReloads
    /\ socketMutex' = Free
    /\ hostpc' = "idle"
    /\ UNCHANGED <<pc, websocketClients, eventCache, buffer, fullMsg, closed,
                   peerGone, peerRest, peerMsg, heard, framesLeft, cutsLeft,
                   goneLeft, out, ndispatch, hostNotified, everSub, unsubAfter,
                   subAfter, inSend, clientVars>>

\* a delivery goroutine runs up to its websocket.Message.Send (lines 260-271,
\* 299-304), or returns before it
SendBegin(i, c) ==
    /\ <<i, c>> \in tasks
    /\ tasks' = tasks \ {<<i, c>>}
    /\ LET call == calls[i]
           sends == IF call.kind = "excl"
                    THEN ~SkipsSender(c, call.sender)
                    ELSE PassesFilter(call.name, eventCache[c])
       IN inSend' = IF sends THEN inSend \cup {<<i, c>>} ELSE inSend
    /\ UNCHANGED <<pc, websocketClients, eventCache, buffer, fullMsg, closed,
                   peerGone, peerRest, peerMsg, heard, framesLeft, cutsLeft,
                   callsLeft, goneLeft, calls, out, ndispatch, hostNotified,
                   frontendReloads, everSub, unsubAfter, subAfter, socketMutex,
                   hostpc, clientVars>>

\* the Send returns; one to a browser that does not read never does
SendEnd(i, c) ==
    /\ <<i, c>> \in inSend
    /\ inSend' = inSend \ {<<i, c>>}
    /\ out' = [out EXCEPT ![c] =
                  Append(@, [call |-> i, msg |-> calls[i].message, ok |-> SendOk(c)])]
    /\ UNCHANGED <<pc, websocketClients, eventCache, buffer, fullMsg, closed,
                   peerGone, peerRest, peerMsg, heard, framesLeft, cutsLeft,
                   callsLeft, goneLeft, calls, tasks, ndispatch, hostNotified,
                   frontendReloads, everSub, unsubAfter, subAfter, socketMutex,
                   hostpc, clientVars>>

LockNext ==
    \/ \E c \in Conns : Accept(c)
    \/ \E c \in Conns : RegisterLock(c)
    \/ \E c \in Conns : RegisterStore(c)
    \/ \E c \in Conns : PlainReceive(c)
    \/ \E c \in Conns : EmitReceive(c)
    \/ \E c \in Conns : EmitLock(c)
    \/ \E c \in Conns : EmitSpawn(c)
    \/ \E c \in Conns : PeerClose(c)
    \/ \E c \in Conns : ProcessBegin(c)
    \/ \E c \in Conns : ReenterLock(c)
    \/ \E c \in Conns : ReenterSpawn(c)
    \/ \E c \in Conns : ProcessEnd(c)
    \/ \E c \in Conns : WriteEnd(c)
    \/ \E c \in Conns : ReadFail(c)
    \/ \E c \in Conns : UnregisterLock(c)
    \/ \E c \in Conns : UnregisterDelete(c)
    \/ HostLock
    \/ HostSpawn
    \/ \E t \in tasks : SendBegin(t[1], t[2])
    \/ \E t \in inSend : SendEnd(t[1], t[2])

\* a thread that is runnable runs: the holder of the lock releases it, and a
\* thread waiting for the lock gets it once it stays free.  Nothing makes a
\* Send or a dispatcher call return.
LockFairness ==
    /\ \A c \in Conns : WF_vars(RegisterLock(c)) /\ WF_vars(RegisterStore(c))
    /\ \A c \in Conns : WF_vars(EmitLock(c)) /\ WF_vars(EmitSpawn(c))
    /\ \A c \in Conns : WF_vars(ReenterLock(c)) /\ WF_vars(ReenterSpawn(c))
    /\ \A c \in Conns : WF_vars(UnregisterLock(c)) /\ WF_vars(UnregisterDelete(c))
    /\ WF_vars(HostSpawn)
    /\ \A c \in Conns : WF_vars(\E i \in 1..LockCalls : SendBegin(i, c))

LockInit == InitRelay(LockConns, LockFrames, 0, LockCalls, LockGone) /\ InitClient /\ InitLock
LockSpec == LockInit /\ [][LockNext]_vars /\ LockFairness

(* ------------------------- the reconnector ----------------------------- *)
\* the sockets made so far are 1..Made
Made == Cardinality({s \in Sockets : sock[s] # "none"})

\* the state once the script has loaded: line 50 has run connect(), which
\* made the first WebSocket and started the first interval timer
InitLoaded ==
    /\ websocket = 1
    /\ wailsInvokeInternal = FALSE
    /\ messageQueue = <<>>
    /\ connectTimer = 1
    /\ timers = {1}
    /\ sock = [s \in Sockets |-> IF s = 1 THEN "connecting" ELSE "none"]
    /\ onclose = {}
    /\ wire = <<>>
    /\ ninvoke = 0
    /\ queued = <<>>
    /\ rebinds = <<>>

\* mutant: the replay loop starts at the second queued message
QueuedSendsMut(queue) == SubSeq(queue, 2, Len(queue))

\* lines 56-59: what the loop over messageQueue passes to window.WailsInvoke
QueuedSends(queue) == queue

\* websocket.send(message) of wailsInvokeInternal (line 54): the wire after
\* it.  No socket, or one still connecting, throws; an open one sends; a
\* closing or closed one drops the data silently.
SendOn(w, ws, state, message) ==
    IF ws # Null /\ state[ws] = "open"
    THEN Append(w, [sock |-> ws, msg |-> message])
    ELSE w

RECURSIVE SendAll(_, _, _, _)
SendAll(w, ws, state, messages) ==
    IF messages = <<>> THEN w
    ELSE SendAll(SendOn(w, ws, state, Head(messages)), ws, state, Tail(messages))

\* lines 21-28: window.WailsInvoke(message), called by the application
WailsInvoke ==
    /\ ninvoke < MaxInvokes
    /\ ninvoke' = ninvoke + 1
    /\ IF ~wailsInvokeInternal
       THEN /\ messageQueue' = Append(messageQueue, ninvoke + 1)
            /\ queued' = Append(queued, ninvoke + 1)
            /\ wire' = wire
       ELSE /\ wire' = SendOn(wire, websocket, sock, ninvoke + 1)
            /\ UNCHANGED <<messageQueue, queued>>
    /\ UNCHANGED <<websocket, wailsInvokeInternal, connectTimer, timers, sock,
                   onclose, rebinds, relayVars, lockVars>>

\* lines 85-98: _connect() makes a WebSocket when there is none
ConnectedSock(state) ==
    [state EXCEPT ![Made + 1] = "connecting"]

\* mutant: _connect() does not look at `websocket`
TickMut ==
    /\ timers # {}
    /\ Made < MaxSockets
    /\ websocket' = Made + 1
    /\ sock' = ConnectedSock(sock)
    /\ UNCHANGED <<wailsInvokeInternal, messageQueue, connectTimer, timers, onclose,
                   wire, ninvoke, queued, rebinds, relayVars, lockVars>>

\* an interval timer fires: _connect()
Tick ==
    /\ timers # {}
    /\ websocket = Null
    /\ Made < MaxSockets
    /\ websocket' = Made + 1
    /\ sock' = ConnectedSock(sock)
    /\ UNCHANGED <<wailsInvokeInternal, messageQueue, connectTimer, timers, onclose,
                   wire, ninvoke, queued, rebinds, relayVars, lockVars>>

\* mutant: clearInterval stops nothing
ClearIntervalMut(running, handle) == running

\* clearInterval(connectTimer) (line 67): the timers still running after it
ClearInterval(running, handle) == running \ {handle}

\* mutant: EventsRebind is called before setupIPCBridge
EventsRebindMut(s, before, after) == [sock |-> s, wire |-> before]

\* window.runtime.EventsRebind() (line 71), the last statement of
\* handleConnect: the call is recorded with the wire as it stands then, which
\* is the wire after setupIPCBridge (line 66) has replayed the queue
EventsRebind(s, before, after) == [sock |-> s, wire |-> after]

\* the socket opens: onopen = handleConnect (lines 64-72), with
\* setupIPCBridge (lines 52-61)
SockOpen(s) ==
    /\ sock[s] = "connecting"
    /\ websocket = s
    /\ sock' = [sock EXCEPT ![s] = "open"]
    /\ wailsInvokeInternal' = TRUE
    /\ wire' = SendAll(wire, websocket, sock', QueuedSends(messageQueue))
    /\ messageQueue' = <<>>
    /\ timers' = ClearInterval(timers, connectTimer)
    /\ onclose' = onclose \cup {websocket}
    /\ rebinds' = Append(rebinds, EventsRebind(websocket, wire, wire'))
    /\ UNCHANGED <<websocket, connectTimer, ninvoke, queued, relayVars, lockVars>>

\* a connection attempt fails: onerror (lines 89-95) forgets the socket.  The
\* close event that follows in the same task finds no onclose handler,
\* because handleConnect never ran for this socket.
SockError(s) ==
    /\ sock[s] = "connecting"
    /\ sock' = [sock EXCEPT ![s] = "closed"]
    /\ websocket' = Null
    /\ UNCHANGED <<wailsInvokeInternal, messageQueue, connectTimer, timers, onclose,
                   wire, ninvoke, queued, rebinds, relayVars, lockVars>>

\* an open socket ends.  Its close event (after its error event, fired in the
\* same task, if the connection failed: onerror only clears `websocket`) runs
\* handleDisconnect (lines 75-80), whose connect() (lines 120-123) makes a
\* socket and starts a timer
SockClose(s) ==
    /\ sock[s] = "open"
    /\ s \in onclose
    /\ Made < MaxSockets
    /\ websocket' = Made + 1
    /\ sock' = [ConnectedSock(sock) EXCEPT ![s] = "closed"]
    /\ connectTimer' = connectTimer + 1
    /\ timers' = timers \cup {connectTimer + 1}
    /\ UNCHANGED <<wailsInvokeInternal, messageQueue, onclose, wire, ninvoke,
                   queued, rebinds, relayVars, lockVars>>

ClientNext ==
    \/ WailsInvoke
    \/ Tick
    \/ \E s \in Sockets : SockOpen(s)
    \/ \E s \in Sockets : SockError(s)
    \/ \E s \in Sockets : SockClose(s)

ClientInit == InitRelay(0, 0, 0, 0, 0) /\ InitLoaded /\ InitLock
ClientSpec == ClientInit /\ [][ClientNext]_vars

(* ------------------------- reading the history ------------------------- *)
\* the sends of call i attempted on connection c
SendsOf(i, c) == {j \in 1..Len(out[c]) : out[c][j].call = i}
Sent(i, c) == SendsOf(i, c) # {}
Pending(i, c) == <<i, c>> \in tasks
\* the read loop of c is running: registered and not yet torn down
InLoop(c) == pc[c] \in {"recv", "frag", "dispatch"}

(* ------------------------------- claims -------------------------------- *)

\* C1: broadcastExcludingSender(message, s) never attempts a send to s, and
\* for every other connection registered at the call its one goroutine is
\* either still to run or has attempted exactly one send of message, whatever
\* the connection subscribed to; connections not registered at the call get
\* nothing of it.
C1_ExcludingSender ==
    \A i \in 1..Len(calls) : calls[i].kind = "excl" =>
       \A c \in Conns :
          IF c = calls[i].sender THEN SendsOf(i, c) = {}
          ELSE IF c \in calls[i].snapshot
          THEN /\ Cardinality(SendsOf(i, c)) + (IF Pending(i, c) THEN 1 ELSE 0) = 1
               /\ \A j \in SendsOf(i, c) : out[c][j].msg = calls[i].message
          ELSE SendsOf(i, c) = {} /\ ~Pending(i, c)

\* a sender's broadcast has reached two other connections, one subscribed to
\* something and one subscribed to nothing, and the sender's goroutine is over
C1_Witness ==
    \E i \in 1..Len(calls) :
       /\ calls[i].kind = "excl"
       /\ calls[i].sender \in calls[i].snapshot
       /\ ~Pending(i, calls[i].sender)
       /\ \E b, c \in calls[i].snapshot \ {calls[i].sender} :
             /\ Sent(i, b) /\ Sent(i, c)
             /\ calls[i].subsAt[b] # {} /\ calls[i].subsAt[c] = {}

\* C2: a message C{"..."} cut into frames anywhere is made into exactly one
\* complete message, the original bytes, as soon as its last frame is in.
\* (peerMsg is such a message, begun at a message boundary; peerRest = <<>>
\* says its last frame was received; heard is what the loop made of it.)
C2_Reassembles ==
    \A c \in Conns :
       (/\ HasPrefix(peerMsg[c], CallPrefix)
        /\ HasSuffix(peerMsg[c], CallSuffix)
        /\ peerRest[c] = <<>>) => heard[c] = <<peerMsg[c]>>

\* C5: a registered connection that has processed EB name and no EX name
\* since is sent every broadcast(message, name) made after the EB (its
\* goroutine is still to run, or has sent the message once); a registered
\* connection that never subscribed to name is sent none of them.
C5_SubscribersReceive ==
    \A i \in 1..Len(calls) :
       (calls[i].kind = "all" /\ calls[i].name # NoName) =>
          \A c \in calls[i].snapshot :
             /\ (calls[i].name \in calls[i].subsAt[c] /\ <<i, c>> \notin unsubAfter)
                   => \/ Pending(i, c) /\ SendsOf(i, c) = {}
                      \/ /\ ~Pending(i, c)
                         /\ Cardinality(SendsOf(i, c)) = 1
                         /\ \A j \in SendsOf(i, c) : out[c][j].msg = calls[i].message
             /\ calls[i].name \notin everSub[c] => ~Sent(i, c)

\* of one notify, a subscriber has its message and a connection that never
\* subscribed was passed over
C5_Witness ==
    \E i \in 1..Len(calls) :
       /\ calls[i].kind = "all" /\ calls[i].name = foo
       /\ \E b, c \in calls[i].snapshot :
             /\ foo \in calls[i].subsAt[b] /\ <<i, b>> \notin unsubAfter /\ Sent(i, b)
             /\ foo \notin everSub[c] /\ ~Pending(i, c) /\ ~Sent(i, c)

\* C6: once EX name followed EB name on a connection (and no EB name came
\* again), no broadcast(message, name) made afterwards is sent to it ...
C6_UnsubscribedSkipped ==
    \A i \in 1..Len(calls) :
       (calls[i].kind = "all" /\ calls[i].name # NoName) =>
          \A c \in Conns :
             (/\ calls[i].name \in everSub[c]
              /\ calls[i].name \notin calls[i].subsAt[c]
              /\ <<i, c>> \notin subAfter) => ~Sent(i, c)

\* ... and processing EX name only takes name out of that connection's set:
\* with name absent the set is unchanged, no other set changes, the
\* connection stays open and registered and its loop goes on
C6_UnsubscribeStep ==
    \A c \in Conns : \A n \in Names :
       (pc[c] = "recv" /\ ReceiveMsg(c, EX \o n, Len(EX \o n))) =>
          /\ eventCache' = [eventCache EXCEPT ![c] = @ \ {n}]
          /\ (n \notin eventCache[c] => eventCache' = eventCache)
          /\ websocketClients' = websocketClients
          /\ closed' = closed
          /\ InLoop(c)'

C6_Unsubscribe == []C6_UnsubscribedSkipped /\ [][C6_UnsubscribeStep]_vars

\* a connection subscribed, unsubscribed, and a later notify of the name has
\* passed it over while it is still registered
C6_Witness ==
    \E i \in 1..Len(calls) : \E c \in calls[i].snapshot :
       /\ calls[i].kind = "all" /\ calls[i].name = foo
       /\ foo \in everSub[c] /\ foo \notin calls[i].subsAt[c]
       /\ <<i, c>> \notin subAfter
       /\ ~Pending(i, c) /\ ~Sent(i, c)
       /\ InLoop(c) /\ c \in websocketClients

\* C7: when the loop of A completes the well-formed EE{"name":"foo","data":[]},
\* one broadcast excluding A is started to every registered connection with
\* the payload behind "n", and the host frontend's Notify gets the name ...
C7_EmitStep ==
    \A c \in Conns :
       (pc[c] = "recv" /\ ReceiveMsg(c, EmitMsg(foo), Len(EmitMsg(foo)))) =>
          /\ Len(calls') = Len(calls) + 1
          /\ calls'[Len(calls')].kind = "excl"
          /\ calls'[Len(calls')].sender = c
          /\ calls'[Len(calls')].message = <<"n">> \o NameOpen \o foo \o DataEmpty
          /\ tasks' = tasks \cup {<<Len(calls'), k>> : k \in websocketClients}
          /\ hostNotified' = Append(hostNotified, foo)

\* ... every send of such a broadcast carries that message to a connection
\* other than A, and every other registered connection, subscribed or not,
\* has it or is about to
C7_EmitSends ==
    \A i \in 1..Len(calls) : calls[i].kind = "excl" =>
       /\ \A c \in Conns : \A j \in SendsOf(i, c) :
             /\ c # calls[i].sender
             /\ out[c][j].msg = calls[i].message
             /\ HasPrefix(out[c][j].msg, <<"n">>)
             /\ ~HasPrefix(out[c][j].msg, EE)
       /\ \A c \in calls[i].snapshot \ {calls[i].sender} : Pending(i, c) \/ Sent(i, c)

C7_Emit == []C7_EmitSends /\ [][C7_EmitStep]_vars

\* A's event reached B (subscribed to something) and C (subscribed to
\* nothing) and the host, and A's own goroutine ended without a send
C7_Witness ==
    \E i \in 1..Len(calls) :
       /\ calls[i].kind = "excl"
       /\ Unmarshal(DropFirst(calls[i].message, 1)).ok
       /\ hostNotified = <<foo>>
       /\ ~Pending(i, calls[i].sender) /\ ~Sent(i, calls[i].sender)
       /\ \E b, c \in calls[i].snapshot \ {calls[i].sender} :
             /\ b # c /\ Sent(i, b) /\ Sent(i, c)
             /\ calls[i].subsAt[b] # {} /\ calls[i].subsAt[c] = {}

C8_ReloadStep ==
    \A c \in Conns :
       (pc[c] = "recv" /\ ReceiveMsg(c, Reload, Len(Reload))) =>
          /\ pc'[c] = "dispatch" /\ fullMsg'[c] = Reload
          /\ calls' = calls /\ tasks' = tasks /\ out' = out
          /\ frontendReloads' = frontendReloads

\* ... while DevWebServer.WindowReload fires the host's window reload and
\* starts an unfiltered `reload` broadcast to every registered connection ...
C8_WindowReloadStep ==
    frontendReloads' # frontendReloads =>
       /\ frontendReloads' = frontendReloads + 1
       /\ Len(calls') = Len(calls) + 1
       /\ calls'[Len(calls')].message = Reload
       /\ calls'[Len(calls')].snapshot = websocketClients
       /\ tasks' = tasks \cup {<<Len(calls'), k>> : k \in websocketClients}

\* ... each of which is sent it once, whatever it subscribed to
C8_ReloadReachesAll ==
    /\ Cardinality({i \in 1..Len(calls) : calls[i].message = Reload}) = frontendReloads
    /\ \A i \in 1..Len(calls) : calls[i].message = Reload =>
          \A c \in Conns :
             IF c \in calls[i].snapshot
             THEN /\ Cardinality(SendsOf(i, c)) + (IF Pending(i, c) THEN 1 ELSE 0) = 1
                  /\ \A j \in SendsOf(i, c) : out[c][j].msg = Reload
             ELSE SendsOf(i, c) = {} /\ ~Pending(i, c)

C9_DragStep ==
    \A c \in Conns :
       (pc[c] = "recv" /\ ReceiveMsg(c, Drag, 4)) =>
          /\ pc'[c] = "recv"
          /\ out' = out /\ calls' = calls /\ tasks' = tasks
          /\ ndispatch' = ndispatch
          /\ eventCache' = eventCache
          /\ websocketClients' = websocketClients /\ closed' = closed

\* ... and drag is never what the dispatcher is called with
C9_DragNotDispatched == \A c \in Conns : pc[c] = "dispatch" => fullMsg[c] # Drag

C9_DragIgnored == []C9_DragNotDispatched /\ [][C9_DragStep]_vars

\* frames were received and left no trace but the count: they were drag.  No
\* dispatcher call, no broadcast, no subscription, every loop waiting
C9_Witness ==
    /\ framesLeft = 0 /\ MaxFrames > 0
    /\ ndispatch = 0 /\ calls = <<>>
    /\ \A c \in Conns : eventCache[c] = {} /\ out[c] = <<>> /\ pc[c] # "dispatch"
    /\ \E c \in Conns : pc[c] = "recv"

\* what "currently open (readable/writable by the relay)" says of c
Open(c) == pc[c] \notin {"off", "new"} /\ ~closed[c] /\ ~peerGone[c]

\* C10 as claimed: a connection is a key of websocketClients iff it is open
C10_RegisteredIffOpen == \A c \in Conns : c \in websocketClients <=> Open(c)

\* C10 amended: a connection is a key from its handler's registration until
\* the handler's deferred delete; the relay has closed it exactly when its
\* loop has ended.  So an unregistered connection the relay has not closed is
\* one just accepted, and a registered one it has closed is one whose
\* deferred delete is still to run.
C10_Registry ==
    \A c \in Conns :
       /\ c \in websocketClients <=> pc[c] \in {"recv", "frag", "dispatch", "closing"}
       /\ closed[c] <=> pc[c] \in {"closing", "done"}

\* both windows at once: one connection closed and still registered, another
\* accepted and not yet registered
C10_Witness ==
    \E c, k \in Conns :
       /\ pc[c] = "closing" /\ closed[c] /\ c \in websocketClients
       /\ pc[k] = "accepted" /\ ~closed[k] /\ k \notin websocketClients

\* C3 as claimed: a WailsInvoke(message) made while the script holds no
\* socket appends message to the queue and gives no socket anything to send
C3_QueuesWhileDisconnected ==
    [][(ninvoke' = ninvoke + 1 /\ websocket = Null)
          => (messageQueue' = Append(messageQueue, ninvoke') /\ wire' = wire)]_vars

\* the messages given to sockets, in order
WireMsgs == [i \in 1..Len(wire) |-> wire[i].msg]
WasQueued(m) == \E i \in 1..Len(queued) : queued[i] = m

\* C4: every message ever queued is either still in the queue or was given
\* to a socket exactly once, and both keep the order of the calls ...
C4_QueueInOrder == SelectSeq(WireMsgs, WasQueued) \o messageQueue = queued

\* ... and the open that makes the script Connected gives the whole queue to
\* the opened socket, oldest first, and leaves the queue empty
C4_OpenStep ==
    \A s \in Sockets :
       (sock[s] = "connecting" /\ sock'[s] = "open") =>
          /\ messageQueue' = <<>>
          /\ Len(wire') = Len(wire) + Len(messageQueue)
          /\ \A i \in 1..Len(messageQueue) :
                wire'[Len(wire) + i] = [sock |-> s, msg |-> messageQueue[i]]

C4_QueueReplayed == []C4_QueueInOrder /\ [][C4_OpenStep]_vars

\* two calls were queued and the open has replayed both
C4_Witness ==
    /\ Len(queued) >= 2
    /\ messageQueue = <<>>
    /\ WireMsgs = queued
    /\ websocket # Null /\ sock[websocket] = "open"

C11_RouteStep ==
    \A c \in Conns : \A m \in Msgs :
       (pc[c] = "recv" /\ ReceiveMsg(c, m, Len(m))) =>
          /\ Classify(m) \in {"drag", "EB", "EE", "EX", "dispatch"}
          /\ Classify(Reload) = "dispatch" /\ Classify(ReloadApp) = "dispatch"
          /\ IF Classify(m) \in {"drag", "EB"}
             THEN pc'[c] = "recv" /\ fullMsg'[c] = <<>>
             ELSE pc'[c] = "dispatch" /\ fullMsg'[c] = m
          /\ calls' # calls <=> Classify(m) = "EE"
          /\ eventCache' # eventCache => Classify(m) \in {"EB", "EX"}
          /\ ndispatch' = ndispatch

\* ... and each message standing there is passed to the dispatcher once
C11_DispatchStep ==
    \A c \in Conns :
       (pc[c] = "dispatch" /\ pc'[c] # "dispatch") => ndispatch' = ndispatch + 1

\* ... so the dispatcher is never called with drag or EB
C11_NeverDispatched ==
    \A c \in Conns :
       pc[c] = "dispatch" => Classify(fullMsg[c]) \in {"EE", "EX", "dispatch"}

C12_DispatchStep ==
    \A c \in Conns : \A r \in ProcessMessage(fullMsg[c]) :
       DispatchWith(c, r) =>
          /\ r.err =>
                /\ out' = out
                /\ c \in websocketClients' /\ ~closed'[c] /\ InLoop(c)'
          /\ (~r.err /\ r.result # <<>>) =>
                /\ Len(out'[c]) = Len(out[c]) + 1
                /\ SubSeq(out'[c], 1, Len(out[c])) = out[c]
                /\ out'[c][Len(out'[c])].msg = r.result
                /\ out'[c][Len(out'[c])].call = 0
                /\ \A k \in Conns \ {c} : out'[k] = out[k]
          /\ calls' = calls /\ tasks' = tasks

Wrote(c) == Len(out'[c]) = Len(out[c]) + 1
LastWrite(c) == out'[c][Len(out'[c])]

\* C13 as claimed: a read loop ends only by a failed read, never by a write
C13_OnlyReadEndsLoop ==
    [][\A c \in Conns : (InLoop(c) /\ ~InLoop(c)') => pc[c] \in {"recv", "frag"}]_vars

\* C13 amended: a read loop ends, with the connection closed, by a failed
\* read or by a failed write of a dispatch result to that connection, and by
\* nothing else; the failed write of a result does end it ...
C13_LoopEndStep ==
    \A c \in Conns :
       /\ (InLoop(c) /\ ~InLoop(c)') =>
             /\ pc'[c] = "closing" /\ closed'[c]
             /\ \/ pc[c] \in {"recv", "frag"} /\ peerGone'[c] /\ out' = out
                \/ /\ pc[c] = "dispatch" /\ Wrote(c)
                   /\ LastWrite(c).call = 0 /\ ~LastWrite(c).ok
       /\ (pc[c] = "dispatch" /\ Wrote(c) /\ LastWrite(c).call = 0 /\ ~LastWrite(c).ok)
             => pc'[c] = "closing"

\* ... a connection leaves the registry only after its loop has ended ...
C13_UnregisterStep ==
    \A c \in Conns :
       (c \in websocketClients /\ c \notin websocketClients') =>
          pc[c] = "closing" /\ closed[c] /\ pc'[c] = "done"

\* ... and a broadcast delivery, failed or not, ends no loop, closes nothing
\* and unregisters nothing
C13_DeliveryStep ==
    \A c \in Conns :
       (Wrote(c) /\ LastWrite(c).call > 0) =>
          pc' = pc /\ closed' = closed /\ websocketClients' = websocketClients

C13_Teardown == [][C13_LoopEndStep /\ C13_UnregisterStep /\ C13_DeliveryStep]_vars

\* a broadcast delivery to a connection failed and its loop went on to the
\* dispatcher; the write of the result failed and that ended the loop
C13_Witness ==
    \E c \in Conns :
       /\ Len(out[c]) = 2
       /\ out[c][1].call > 0 /\ ~out[c][1].ok
       /\ out[c][2].call = 0 /\ ~out[c][2].ok
       /\ pc[c] = "closing" /\ c \in websocketClients

\* C14 as claimed: of two host broadcasts made one after the other, a
\* connection that is sent both is sent the earlier one first
C14_PerConnectionFIFO ==
    \A c \in Conns : \A a, b \in 1..Len(out[c]) :
       (/\ a < b
        /\ out[c][a].call > 0 /\ out[c][b].call > 0
        /\ calls[out[c][a].call].kind = "all"
        /\ calls[out[c][b].call].kind = "all") => out[c][a].call < out[c][b].call

\* C15: socketMutex is held only by a thread that is between its Lock and
\* its Unlock around a registry operation: a handler registering, deleting or
\* starting a broadcast's goroutines, or the host starting them.  A handler
\* that is at or inside a dispatcher call or a Send of a result does not hold
\* it, and delivery goroutines never hold it ...
C15_HeldOnlyForRegistry ==
    /\ socketMutex \in {Free, Host} \cup {Handler(c) : c \in Conns}
    /\ \A c \in Conns :
          socketMutex = Handler(c) <=>
             pc[c] \in {"registering", "emitting", "reentering", "deleting"}
    /\ socketMutex = Host <=> hostpc # "idle"
    /\ \A c \in Conns :
          pc[c] \in {"dispatch", "processing", "writing"} => socketMutex # Handler(c)

\* ... whoever holds it can release it at once, whatever sends and
\* dispatcher calls are in progress ...
C15_HolderCanRelease ==
    /\ \A c \in Conns :
          socketMutex = Handler(c) =>
             ENABLED (RegisterStore(c) \/ EmitSpawn(c) \/ ReenterSpawn(c)
                         \/ UnregisterDelete(c))
    /\ socketMutex = Host => ENABLED HostSpawn

\* ... so, with no Send and no dispatcher call ever returning, an accepted
\* connection still gets registered, a closed one still gets removed, a
\* started broadcast still has each of its goroutines run, and a dispatcher
\* call that asks for a broadcast still gets the lock and gives it back
C15_NothingWaitsForASend ==
    /\ \A c \in Conns : (pc[c] = "accepted") ~> (c \in websocketClients)
    /\ \A c \in Conns : (pc[c] = "closing") ~> (pc[c] = "done")
    /\ \A c \in Conns : \A i \in 1..LockCalls : (<<i, c>> \in tasks) ~> (<<i, c>> \notin tasks)
    /\ \A c \in Conns : (pc[c] = "reentering") ~> (pc[c] = "processing")

C15_LockDiscipline ==
    /\ []C15_HeldOnlyForRegistry
    /\ []C15_HolderCanRelease
    /\ C15_NothingWaitsForASend

\* a delivery to a connection is inside Send and that connection's handler is
\* inside a dispatcher call, while another connection's handler holds the
\* lock to register
C15_Witness ==
    \E a, b \in Conns :
       /\ a # b
       /\ \E i \in 1..Len(calls) : <<i, a>> \in inSend
       /\ pc[a] = "processing"
       /\ socketMutex = Handler(b) /\ pc[b] = "registering"

\* C16 as claimed: no delivery goroutine of a broadcast attempts a send on a
\* connection that its read loop has closed or removed from the registry
C16_NoSendAfterTeardown ==
    [][\A c \in Conns :
          (Wrote(c) /\ LastWrite(c).call > 0) =>
             (~closed[c] /\ c \in websocketClients)]_vars

\* C16 amended: a broadcast starts goroutines for exactly the keys the
\* registry has under the lock, closed or not ...
C16_SnapshotStep ==
    calls' # calls =>
       /\ Len(calls') = Len(calls) + 1
       /\ calls'[Len(calls')].snapshot = websocketClients
       /\ tasks' = tasks \cup {<<Len(calls'), k>> : k \in websocketClients}

\* ... every send of a broadcast is to a connection of its snapshot ...
C16_SendsWithinSnapshot ==
    \A c \in Conns : \A j \in 1..Len(out[c]) :
       out[c][j].call > 0 => c \in calls[out[c][j].call].snapshot

\* ... and a send on a connection already closed fails and changes nothing
\* but the log
C16_ClosedSendStep ==
    \A c \in Conns :
       (Wrote(c) /\ LastWrite(c).call > 0 /\ closed[c]) =>
          /\ ~LastWrite(c).ok
          /\ pc' = pc /\ closed' = closed /\ websocketClients' = websocketClients
          /\ eventCache' = eventCache
          /\ \A k \in Conns \ {c} : out'[k] = out[k]

C16_SnapshotOnly ==
    /\ []C16_SendsWithinSnapshot
    /\ [][C16_SnapshotStep /\ C16_ClosedSendStep]_vars

\* a broadcast found in the registry a connection that was already closed
\* and its goroutine attempted the send, which failed; the connection has
\* since been removed
C16_Witness ==
    \E i \in 1..Len(calls) : \E c \in calls[i].snapshot :
       /\ calls[i].closedAt[c]
       /\ Sent(i, c) /\ \A j \in SendsOf(i, c) : ~out[c][j].ok
       /\ c \notin websocketClients /\ pc[c] = "done"

\* C17: a read loop inside a reassembly leaves it only when a frame ending
\* in "} arrives or a read fails, so it stays there for as long as the
\* browser sends no closing bytes ...
C17_StallStep ==
    \A a \in Conns :
       (pc[a] = "frag" /\ pc'[a] # "frag") =>
          \/ pc'[a] = "closing"
          \/ /\ pc'[a] = "dispatch"
             /\ framesLeft' = framesLeft - 1
             /\ HasSuffix(fullMsg'[a], CallSuffix)

\* ... and meanwhile every message another connection's loop has read is
\* passed on, and every started delivery to another connection runs
C17_OthersProgress ==
    \A a, b \in Conns : a # b =>
       /\ (pc[a] = "frag" /\ pc[b] = "dispatch") ~> (pc[b] # "dispatch")
       /\ \A i \in 1..StallCalls :
             (pc[a] = "frag" /\ <<i, b>> \in tasks) ~> (<<i, b>> \notin tasks)

C17_StallIsLocal == [][C17_StallStep]_vars /\ C17_OthersProgress

\* one loop is inside a reassembly; another connection has had its request
\* answered and a broadcast delivered
C17_Witness ==
    \E a, b \in Conns :
       /\ a # b
       /\ pc[a] = "frag" /\ buffer[a] # <<>> /\ ~HasSuffix(buffer[a], CallSuffix)
       /\ pc[b] = "recv"
       /\ \E j, k \in 1..Len(out[b]) :
             /\ out[b][j].call = 0 /\ out[b][j].ok
             /\ out[b][k].call > 0 /\ out[b][k].ok

\* C18: when a read fails inside a reassembly the loop ends as it does
\* between messages: the connection is closed, and the partial buffer is not
\* classified, starts no broadcast, changes no subscription, is not passed
\* to the dispatcher and nothing is written ...
C18_ReadFailStep ==
    \A c \in Conns :
       (pc[c] \in {"recv", "frag"} /\ peerGone'[c] /\ ~closed[c] /\ closed'[c]) =>
          /\ pc'[c] = "closing"
          /\ c \in websocketClients'
          /\ fullMsg'[c] = <<>>
          /\ calls' = calls /\ tasks' = tasks /\ out' = out
          /\ eventCache' = eventCache /\ hostNotified' = hostNotified
          /\ ndispatch' = ndispatch

\* ... a partial buffer never stands at the dispatcher call ...
C18_PartialNotDispatched ==
    \A c \in Conns :
       (pc[c] = "dispatch" /\ HasPrefix(fullMsg[c], CallPrefix))
          => HasSuffix(fullMsg[c], CallSuffix)

\* ... and the closed connection is then removed from the registry
C18_Removed ==
    \A c \in Conns : (pc[c] = "closing") ~> (pc[c] = "done" /\ c \notin websocketClients)

C18_ReassemblyReadFailure ==
    /\ [][C18_ReadFailStep]_vars
    /\ []C18_PartialNotDispatched
    /\ C18_Removed

\* a connection was torn down with a partial message in its buffer: nothing
\* was dispatched, broadcast or written, and it is out of the registry
C18_Witness ==
    \E c \in Conns :
       /\ pc[c] = "done" /\ closed[c] /\ c \notin websocketClients
       /\ HasPrefix(buffer[c], CallPrefix) /\ ~HasSuffix(buffer[c], CallSuffix)
       /\ ndispatch = 0 /\ calls = <<>> /\ out[c] = <<>>

\* C19: when the loop of A completes an EE message whose payload does not
\* decode, a broadcast excluding A of "n" + the raw payload is started to
\* every registered connection, the host frontend's Notify is not called,
\* and A stays open, registered and in its loop ...
C19_BadEmitStep ==
    \A c \in Conns :
       (pc[c] = "recv" /\ ReceiveMsg(c, BadEmitMsg, Len(BadEmitMsg))) =>
          /\ Len(calls') = Len(calls) + 1
          /\ calls'[Len(calls')].kind = "excl"
          /\ calls'[Len(calls')].sender = c
          /\ calls'[Len(calls')].message = <<"n">> \o DropFirst(BadEmitMsg, 2)
          /\ tasks' = tasks \cup {<<Len(calls'), k>> : k \in websocketClients}
          /\ hostNotified' = hostNotified
          /\ c \in websocketClients' /\ ~closed'[c] /\ InLoop(c)'

\* ... and every other connection registered then has that message sent to
\* it once, or its goroutine is still to run
C19_BadEmitSends ==
    \A i \in 1..Len(calls) :
       (calls[i].kind = "excl" /\ calls[i].message = <<"n">> \o DropFirst(BadEmitMsg, 2)) =>
          \A c \in calls[i].snapshot \ {calls[i].sender} :
             /\ Cardinality(SendsOf(i, c)) + (IF Pending(i, c) THEN 1 ELSE 0) = 1
             /\ \A j \in SendsOf(i, c) : out[c][j].msg = calls[i].message

C19_MalformedEmit == []C19_BadEmitSends /\ [][C19_BadEmitStep]_vars

\* the raw payload reached both other connections, the host was not
\* notified, and the sender is still registered and in its loop
C19_Witness ==
    \E i \in 1..Len(calls) :
       /\ calls[i].kind = "excl"
       /\ calls[i].message = <<"n", "{">>
       /\ hostNotified = <<>>
       /\ InLoop(calls[i].sender) /\ calls[i].sender \in websocketClients
       /\ ~closed[calls[i].sender]
       /\ \E b, c \in calls[i].snapshot \ {calls[i].sender} :
             b # c /\ Sent(i, b) /\ Sent(i, c)

\* the sockets that are connecting or open
Live == {s \in Sockets : sock[s] \in {"connecting", "open"}}

\* C20: at most one socket is connecting or open, and it is the one the
\* script holds in `websocket` ...
C20_OneLiveSocket ==
    /\ Cardinality(Live) <= 1
    /\ Live = IF websocket = Null THEN {} ELSE {websocket}

\* ... a socket is made only when no other is left connecting or open: by a
\* timer tick when there was none, or by the close of the one there was
C20_AttemptStep ==
    \A s \in Sockets :
       (sock[s] = "none" /\ sock'[s] = "connecting") =>
          /\ \A k \in Sockets \ {s} : sock'[k] \in {"none", "closed"}
          /\ \A k \in Sockets : k < s => sock'[k] = "closed"
          /\ \/ Live = {} /\ websocket = Null /\ timers # {}
             \/ \E k \in Live : sock[k] = "open" /\ sock'[k] = "closed"

C20_SingleAttempt == []C20_OneLiveSocket /\ [][C20_AttemptStep]_vars

\* the third socket is open after one attempt ended before it opened and one
\* connection ended after it had opened
C20_Witness ==
    /\ Made = 3
    /\ Live = {3} /\ sock[3] = "open"
    /\ onclose = {1, 3} \/ onclose = {2, 3}

(* ---------------------------------------------------------------------- *)
\* the script is Connected: it holds a socket, and that socket is open
Connected == websocket # Null /\ sock[websocket] = "open"

\* what the replay of a queue puts on the wire of socket s
Replayed(s, queue) == [i \in 1..Len(queue) |-> [sock |-> s, msg |-> queue[i]]]

\* C21 (the open): a successful open puts every queued message on the
\* wire of the opened socket, oldest first, empties the queue, and only then
\* calls EventsRebind, once; the timer connect() started is no longer running
C21_OpenStep ==
    [][\A s \in Sockets : SockOpen(s) =>
          /\ wire' = wire \o Replayed(s, messageQueue)
          /\ messageQueue' = <<>>
          /\ rebinds' = Append(rebinds, [sock |-> s, wire |-> wire'])
          /\ connectTimer \notin timers']_vars

\* C21 (while Connected): no timer is running, and no step makes a socket
\* except the close of the connected socket itself
C21_TimerIdle == Connected => timers = {}

C21_NoAttemptWhileConnected ==
    [][Connected => (Made' = Made \/ sock'[websocket] = "closed")]_vars

\* C21 (the restart): a timer starts running only in the step in which an
\* open socket closes
C21_TimerRestart ==
    [][(timers' # timers /\ timers' # {}) =>
          \E s \in Sockets : sock[s] = "open" /\ sock'[s] = "closed"]_vars

\* C21: on every successful open the queued messages are sent, oldest first,
\* before EventsRebind is invoked, and the reconnect timer is cancelled, so
\* that no attempt is started while Connected; the timer loop runs again only
\* after the next close
C21_OpenDrainsThenRebinds ==
    /\ C21_OpenStep
    /\ []C21_TimerIdle
    /\ C21_NoAttemptWhileConnected
    /\ C21_TimerRestart

\* two messages were queued and replayed by the first open before its
\* EventsRebind; that socket closed, and the script is Connected again on a
\* later socket, with no timer running
C21_Witness ==
    /\ Len(rebinds) = 2
    /\ Len(queued) = 2
    /\ rebinds[1].wire = Replayed(rebinds[1].sock, queued)
    /\ sock[rebinds[1].sock] = "closed"
    /\ Connected
    /\ timers = {}

(* ---------------------------------------------------------------------- *)
\* C24 (the state): at most one interval timer is running, and it is the one
\* whose handle the script holds in connectTimer
C24_AtMostOneTimer ==
    /\ Cardinality(timers) <= 1
    /\ timers \subseteq {connectTimer}

\* C24 (connect): a step that starts a timer starts it when none is running
C24_ConnectStep ==
    [][connectTimer' # connectTimer =>
          /\ timers = {}
          /\ timers' = {connectTimer'}]_vars

\* C24 (handleConnect): an open leaves no timer running
C24_CancelStep ==
    [][\A s \in Sockets : SockOpen(s) => timers' = {}]_vars

\* C24: after any sequence of connect(), open, error and close events at most
\* one reconnect interval timer is active; every timer connect() started is
\* cancelled by the next handleConnect, so timers never accumulate
C24_TimersDoNotAccumulate ==
    /\ []C24_AtMostOneTimer
    /\ C24_ConnectStep
    /\ C24_CancelStep

\* connect() has run three times (at load and after two closes); the first
\* two timers were cancelled by the opens that followed them, and the third
\* is the only one running
C24_Witness ==
    /\ connectTimer = 3
    /\ timers = {3}
    /\ Cardinality(onclose) = 2

(* ---------------------------------------------------------------------- *)
\* the named broadcasts a connection was sent
NamedSends(c) ==
    {j \in 1..Len(out[c]) :
        /\ out[c][j].call # 0
        /\ calls[out[c][j].call].kind = "all"
        /\ calls[out[c][j].call].name # NoName}

\* C22 (registration): the step that registers a connection gives it an empty
\* subscription set, whatever the sets of the other connections hold, those
\* of connections already removed included, and changes no other set
C22_RegisterStep ==
    [][\A c \in Conns : Register(c) =>
          /\ c \notin websocketClients /\ c \in websocketClients'
          /\ eventCache'[c] = {}
          /\ \A k \in Conns \ {c} : eventCache'[k] = eventCache[k]]_vars

\* C22 (removal): a removed connection is never registered again, so the
\* names it stored are never looked up for a connection registered later
C22_RemovedStaysRemoved ==
    [][\A c \in Conns : pc[c] = "done" => pc'[c] = "done" /\ c \notin websocketClients']_vars

\* C22 (delivery): a send of a named broadcast is made to a connection only
\* when its own EB of that name was processed before the send
C22_SendStep ==
    [][\A c \in Conns :
          (Len(out'[c]) = Len(out[c]) + 1 /\ Len(out'[c]) \in NamedSends(c)') =>
             /\ calls[out'[c][Len(out'[c])].call].name \in everSub[c]
             /\ calls[out'[c][Len(out'[c])].call].name \in eventCache[c]]_vars

\* C22: subscription entries do not survive the destruction of a connection:
\* every newly registered connection starts with an empty subscription set,
\* also when an earlier connection held a subscription, and it is sent no
\* named broadcast until its own EB of that name has been processed
C22_FreshSubscriptions ==
    /\ C22_RegisterStep
    /\ C22_RemovedStaysRemoved
    /\ C22_SendStep

\* a connection subscribed to foo and was removed before a notify of foo; the
\* other connection, registered at that notify and never subscribed, was
\* passed over by its delivery
C22_Witness ==
    \E i \in 1..Len(calls) : \E a \in Conns : \E b \in calls[i].snapshot :
       /\ calls[i].kind = "all" /\ calls[i].name = foo
       /\ foo \in calls[i].subsAt[a] /\ a \notin calls[i].snapshot /\ pc[a] = "done"
       /\ everSub[b] = {}
       /\ ~Pending(i, b) /\ ~Sent(i, b)
       /\ InLoop(b)

(* ---------------------------------------------------------------------- *)
\* the calls of broadcast with a name
NamedCalls == {i \in 1..Len(calls) : calls[i].kind = "all" /\ calls[i].name # NoName}

\* C23: the filter of broadcast(message, name) is decided on the subscription
\* state at the moment of the call: a connection not subscribed to name at
\* the call is not sent the message even if its EB name is processed
\* afterwards, and a connection subscribed at the call is sent it (once its
\* delivery has run) even if its EX name is processed afterwards
C23_FilterAtCall ==
    \A i \in NamedCalls : \A c \in calls[i].snapshot :
       /\ calls[i].name \notin calls[i].subsAt[c] => ~Sent(i, c)
       /\ (calls[i].name \in calls[i].subsAt[c] /\ ~Pending(i, c)) => Sent(i, c)

\* C23, as the code has it (the delivery): the goroutine of a named broadcast
\* sends exactly when the connection's set holds the name as the goroutine runs
C23_DeliveryStep ==
    [][\A i \in NamedCalls : \A c \in Conns :
          (Pending(i, c) /\ ~Pending(i, c)') =>
             (Sent(i, c)' <=> calls[i].name \in eventCache[c])]_vars

\* C23, as the code has it (the window): the outcome differs from the
\* subscription state at the call only when the connection's EB or EX of
\* the name was processed after the call
C23_WindowOnly ==
    \A i \in NamedCalls : \A c \in calls[i].snapshot :
       /\ (calls[i].name \notin calls[i].subsAt[c] /\ Sent(i, c)) => <<i, c>> \in subAfter
       /\ (calls[i].name \in calls[i].subsAt[c] /\ ~Pending(i, c) /\ ~Sent(i, c))
             => <<i, c>> \in unsubAfter

C23_FilterAtDelivery == C23_DeliveryStep /\ []C23_WindowOnly

\* of one notify of foo, a connection that subscribed only after the call
\* was sent the message, and one that was subscribed at the call and
\* unsubscribed after it was passed over
C23_Witness ==
    \E i \in NamedCalls : \E a, b \in calls[i].snapshot :
       /\ calls[i].name = foo
       /\ foo \notin calls[i].subsAt[a] /\ <<i, a>> \in subAfter /\ Sent(i, a)
       /\ foo \in calls[i].subsAt[b] /\ <<i, b>> \in unsubAfter
       /\ ~Pending(i, b) /\ ~Sent(i, b)

====
